---- MODULE Spec2Model ----
(***************************************************************************)
(* Model of src/lib/email.ts: the Stripe webhook handler POST and the      *)
(* Mailgun notifier sendBookingNotificationEmail.                          *)
(*                                                                         *)
(* JavaScript values are records tagged by their type, so that undefined,  *)
(* null, strings and numbers stay distinct and the `||`, `?.` and template *)
(* literal semantics can be computed the way the runtime computes them.    *)
(***************************************************************************)
EXTENDS Integers, Sequences, FiniteSets, TLC

VARIABLES
    env,          \* process.env, read once when the module is evaluated
    loaded,       \* the module's top-level statements (lines 5-14) completed
    pc,           \* position of the one POST invocation in flight
    req,          \* the request, once POST has read it (lines 115-116)
    steps,        \* guards of POST evaluated so far, in evaluation order
    verifyArg,    \* the payload POST handed to constructEvent (line 128)
    thrown,       \* exception raised inside POST's outer try block
    bookingInfo,  \* the record built at lines 142-155
    notifyCalls,  \* invocations of sendBookingNotificationEmail by this POST
    mailData,     \* the data object handed to mg.messages().send (line 88)
    sendOutcome,  \* how the provider's send call behaved
    notifyResult, \* value sendBookingNotificationEmail resolved to
    cb,           \* the provider's delivery callback (lines 88-96)
    response,     \* what POST returned
    responses     \* number of responses POST produced for this request

vars == <<env, loaded, pc, req, steps, verifyArg, thrown, bookingInfo,
          notifyCalls, mailData, sendOutcome, notifyResult, cb, response,
          responses>>

-----------------------------------------------------------------------------
(* Bounds of the model *)

\* largest amount_total (minor units) a session carries
MaxAmountTotal == 4550

\* largest session.created (seconds since the epoch) a session carries
MaxCreated == 1700

-----------------------------------------------------------------------------
(* JavaScript values *)

Undefined == [t |-> "undefined"]
Null == [t |-> "null"]
NaN == [t |-> "NaN"]
Str(s) == [t |-> "string", s |-> s]
\* a number with two decimal places: whole + frac / 100
Dec(w, f) == [t |-> "number", whole |-> w, frac |-> f]
Num(n) == Dec(n, 0)
None == [t |-> "none"]

\* ToBoolean, as applied by `!x`, `a || b` and `c ? a : b`
Truthy(v) ==
    CASE v.t = "undefined" -> FALSE
      [] v.t = "null" -> FALSE
      [] v.t = "NaN" -> FALSE
      [] v.t = "string" -> v.s # ""
      [] v.t = "number" -> v.whole # 0 \/ v.frac # 0
      [] OTHER -> TRUE

\* a || b
OrElse(a, b) == IF Truthy(a) THEN a ELSE b

Pad2(n) == IF n < 10 THEN "0" \o ToString(n) ELSE ToString(n)

\* Number.prototype.toFixed(2)
ToFixed2(v) == ToString(v.whole) \o "." \o Pad2(v.frac)

\* ToString, as applied by a template literal's ${...}
TemplateString(v) ==
    CASE v.t = "undefined" -> "undefined"
      [] v.t = "null" -> "null"
      [] v.t = "NaN" -> "NaN"
      [] v.t = "string" -> v.s
      [] v.t = "number" ->
            IF v.frac = 0 THEN ToString(v.whole)
            ELSE ToString(v.whole) \o "." \o Pad2(v.frac)
      [] OTHER -> "[object Object]"

\* ToNumber, as applied by the `*` operator
ToNumber(v) == IF v.t = "number" THEN v ELSE NaN

\* String.prototype.toUpperCase on the currency codes of the model
ToUpperCase(v) ==
    CASE v.s = "usd" -> Str("USD")
      [] v.s = "eur" -> Str("EUR")
      [] OTHER -> v

\* x?.toUpperCase()
OptToUpperCase(v) ==
    IF v.t \in {"undefined", "null"} THEN Undefined ELSE ToUpperCase(v)

\* amount_total / 100
Divide100_Truncating(v) == Dec(v.whole \div 100, 0)
Divide100(v) == Dec(v.whole \div 100, v.whole % 100)

-----------------------------------------------------------------------------
(* Module-level configuration, lines 5-14 *)

EnvValues == {Undefined, Str("configured")}
WebhookSecrets == {Undefined, Str("whsec_live")}

Envs ==
    [STRIPE_SECRET_KEY : EnvValues,
     STRIPE_WEBHOOK_SECRET : WebhookSecrets,
     MAILGUN_API_KEY : EnvValues]

\* const stripe = process.env.STRIPE_SECRET_KEY ? new Stripe(...) : null
stripe ==
    IF Truthy(env.STRIPE_SECRET_KEY)
    THEN [t |-> "object", client |-> "Stripe"]
    ELSE Null

\* const webhookSecret = process.env.STRIPE_WEBHOOK_SECRET
webhookSecret == env.STRIPE_WEBHOOK_SECRET

\* const mg = mailgun({ apiKey: process.env.MAILGUN_API_KEY, domain: ... })
\* The factory is called unconditionally: whatever the key, mg is the client
\* object the factory returned, never null or undefined.
mg == [t |-> "object", client |-> "Mailgun", apiKey |-> env.MAILGUN_API_KEY]

\* Outcomes of evaluating line 14: with a key the factory returns; without
\* one the library either returns a client holding no key or throws, and a
\* throw at module evaluation leaves no POST to call.
ModuleLoadOutcomes(e) ==
    IF Truthy(e.MAILGUN_API_KEY) THEN {TRUE} ELSE {TRUE, FALSE}

\* !stripe || !webhookSecret || !mg  (line 108)
NotConfigured == ~Truthy(stripe) \/ ~Truthy(webhookSecret) \/ ~Truthy(mg)

-----------------------------------------------------------------------------
(* Requests: the event payloads and signature headers POST may receive *)

MetaSample ==
    [bookingId |-> Str("BK-1"), firstName |-> Str("Ada"),
     lastName |-> Str("Lovelace"), phone |-> Str("+15550100"),
     tourOption |-> Str("Seoul City Tour"),
     preferredLanguage |-> Str("Korean")]

MetaKeys == DOMAIN MetaSample

\* a metadata map holding the keys of `present`
MetadataWith(present) ==
    [k \in present \cup {"t"} |-> IF k = "t" THEN "object" ELSE MetaSample[k]]

\* session.metadata: null, or a map holding any subset of the keys
Metadatas == {Null} \cup {MetadataWith(present) : present \in SUBSET MetaKeys}

AmountTotals == {Null, Num(0), Num(5), Num(MaxAmountTotal)}
Currencies == {Null, Str("usd"), Str("eur")}
Createds == {Undefined, Str("soon"), Num(MaxCreated)}

Sessions ==
    [t : {"object"},
     id : {Str("cs_test_1")},
     metadata : Metadatas,
     customer_email : {Null, Str("ada@example.com")},
     amount_total : AmountTotals,
     payment_status : {Str("paid"), Str("unpaid")},
     currency : Currencies,
     payment_intent : {Null, Str("pi_1")},
     created : Createds]

PlainObject == [t |-> "object", id |-> Str("obj_1")]

OtherTypes ==
    {"checkout.session.expired", "payment_intent.payment_failed",
     "customer.created"}

\* event.data.object is a session for a completed checkout; an event may
\* also arrive without any data.object
Events ==
    [type : {"checkout.session.completed"}, object : Sessions \cup {Undefined}]
    \cup [type : OtherTypes, object : {PlainObject, Undefined}]

NotJson == [json |-> FALSE]
JsonBody(e) == [json |-> TRUE, event |-> e]
Bodies == {NotJson} \cup {JsonBody(e) : e \in Events}

\* a payload other than b: what the sender signed when b was altered in transit
Tampered(b) ==
    IF b.json /\ b.event.type = "customer.created"
    THEN NotJson
    ELSE JsonBody([type |-> "customer.created", object |-> PlainObject])

\* a stripe-signature header value: the HMAC of `payload` under `key`
Sig(key, payload) ==
    [t |-> "string", s |-> "t=1,v1=hmac", key |-> key, payload |-> payload]

SignaturesFor(b) ==
    {Null, Str(""),
     Sig("whsec_live", b), Sig("whsec_forged", b),
     Sig("whsec_live", Tampered(b))}

Request(b, s) == [body |-> b, signature |-> s]

-----------------------------------------------------------------------------
(* stripe.webhooks.constructEvent, as called at line 128 *)

\* the signature check: an HMAC of the payload bytes under the secret
VerifyHeader(payload, signature, secret) ==
    /\ "key" \in DOMAIN signature
    /\ secret.t = "string"
    /\ signature.key = secret.s
    /\ signature.payload = payload

\* verifies first, then parses; throws on either failure
constructEvent_NoVerify(payload, signature, secret) ==
    IF payload.json
    THEN [ok |-> TRUE, event |-> payload.event]
    ELSE [ok |-> FALSE]
constructEvent(payload, signature, secret) ==
    IF VerifyHeader(payload, signature, secret) /\ payload.json
    THEN [ok |-> TRUE, event |-> payload.event]
    ELSE [ok |-> FALSE]


-----------------------------------------------------------------------------
(* Field extraction, lines 136-155 *)

\* obj.key: a property the object does not hold reads as undefined
Prop(obj, key) == IF key \in DOMAIN obj THEN obj[key] ELSE Undefined

\* session.metadata?.key
MetaGet(session, key) ==
    LET metadata == Prop(session, "metadata")
    IN  IF metadata.t \in {"undefined", "null"}
        THEN Undefined
        ELSE Prop(metadata, key)

\* `${session.metadata?.firstName} ${session.metadata?.lastName}`
CustomerName(session) ==
    Str(TemplateString(MetaGet(session, "firstName")) \o " "
        \o TemplateString(MetaGet(session, "lastName")))

\* session.metadata?.preferredLanguage || 'English'
PreferredLanguage_NoDefault(session) == MetaGet(session, "preferredLanguage")
PreferredLanguage(session) ==
    OrElse(MetaGet(session, "preferredLanguage"), Str("English"))

\* session.amount_total ? session.amount_total / 100 : 0
PaymentAmount(session) ==
    IF Truthy(Prop(session, "amount_total")) THEN Divide100(Prop(session, "amount_total"))
    ELSE Num(0)

\* session.currency?.toUpperCase() || 'USD'
Currency(session) == OrElse(OptToUpperCase(Prop(session, "currency")), Str("USD"))

\* session.created * 1000
CreatedMs(session) ==
    LET n == ToNumber(Prop(session, "created"))
    IN  IF n.t = "number" THEN Num(n.whole * 1000) ELSE NaN

\* new Date(ms).toISOString(): throws a RangeError on an invalid date
ToISOStringThrows(ms) == ms.t # "number"
ToISOString(ms) == [t |-> "string", s |-> "iso-8601", epochMs |-> ms.whole]

\* the switch of POST, line 134: the case a type selects
Branch_FallThrough(type) ==
    IF type \in {"checkout.session.completed", "checkout.session.expired"}
    THEN "completed"
    ELSE "default"
Branch(type) ==
    CASE type = "checkout.session.completed" -> "completed"
      [] type = "checkout.session.expired" -> "expired"
      [] type = "payment_intent.payment_failed" -> "failed"
      [] OTHER -> "default"

\* Reading a property of undefined throws a TypeError: session.id (line 139),
\* expiredSession.id (line 171), event.data.object.id (line 175)
ExtractionThrows(event) ==
    CASE Branch(event.type) = "completed" ->
            \/ event.object = Undefined
            \/ ToISOStringThrows(CreatedMs(event.object))
      [] Branch(event.type) = "expired" -> event.object = Undefined
      [] Branch(event.type) = "failed" -> event.object = Undefined
      [] OTHER -> FALSE

\* const bookingInfo = {...}  (lines 142-155)
BookingInfoOf(session) ==
    [sessionId |-> Prop(session, "id"),
     bookingId |-> MetaGet(session, "bookingId"),
     customerName |-> CustomerName(session),
     customerEmail |-> Prop(session, "customer_email"),
     customerPhone |-> MetaGet(session, "phone"),
     tourOption |-> MetaGet(session, "tourOption"),
     preferredLanguage |-> PreferredLanguage(session),
     paymentAmount |-> PaymentAmount(session),
     paymentStatus |-> Prop(session, "payment_status"),
     currency |-> Currency(session),
     paymentIntentId |-> Prop(session, "payment_intent"),
     createdAt |-> ToISOString(CreatedMs(session))]

-----------------------------------------------------------------------------
(* The notification, lines 44-86.  html holds the value interpolated at each *)
(* ${...} of the template, keyed by the label the template prints before it; *)
(* the Booking Time line interpolates the server's clock and is left out.    *)

NA == Str("N/A")

EmailContent(info) ==
    [Name |-> TemplateString(info.customerName),
     Email |-> TemplateString(OrElse(info.customerEmail, NA)),
     Phone |-> TemplateString(OrElse(info.customerPhone, NA)),
     TourOption |-> TemplateString(OrElse(info.tourOption, NA)),
     PreferredLanguage |-> TemplateString(info.preferredLanguage),
     TotalAmount |-> "$" \o ToFixed2(info.paymentAmount) \o " "
                        \o TemplateString(info.currency),
     PaymentStatus |-> TemplateString(info.paymentStatus),
     BookingId |-> TemplateString(OrElse(info.bookingId, NA)),
     SessionId |-> TemplateString(info.sessionId),
     PaymentIntentId |-> TemplateString(OrElse(info.paymentIntentId, NA))]

SubjectPrefix == "New Booking Confirmed - "

MailDataOf(info) ==
    [from |-> "Six Hour Layover <noreply@sixhourlayover.com>",
     to |-> <<"booking@sixhourlayover.com">>,
     subject |-> SubjectPrefix \o TemplateString(info.customerName),
     html |-> EmailContent(info)]

-----------------------------------------------------------------------------
(* Responses of POST *)

Json(body, status) == [status |-> status, body |-> body]

RespNotConfigured ==
    Json([error |-> "Stripe webhook or Mailgun is not configured"], 500)
RespMissingSignature == Json([error |-> "Missing stripe-signature header"], 400)
RespInvalidSignature == Json([error |-> "Invalid signature"], 400)
RespReceived == Json([received |-> TRUE], 200)
RespProcessingFailed == Json([error |-> "Webhook processing failed"], 500)
Escaped == [escaped |-> TRUE]

\* the outer catch of POST, lines 183-189
CatchAll_Rethrow == Escaped
CatchAll == RespProcessingFailed


-----------------------------------------------------------------------------
(* The provider's send call, line 88: mg.messages().send(data, callback) *)

\* throws: the call throws synchronously; rejects: it returns a promise that
\* rejects; returns: it returns and reports the delivery through the callback
SendOutcomes == {"throws", "rejects", "returns"}

\* what the callback can report: a client holding no API key is never accepted
CallbackReports == IF Truthy(env.MAILGUN_API_KEY) THEN {"ok", "error"} ELSE {"error"}

\* the catch of sendBookingNotificationEmail, lines 99-103
NotifierCatch_Rethrow == "throws"
NotifierCatch == "false"

-----------------------------------------------------------------------------
(* State machine *)

Init ==
    /\ env \in Envs
    /\ loaded \in ModuleLoadOutcomes(env)
    /\ pc = "idle"
    /\ req = None
    /\ steps = <<>>
    /\ verifyArg = None
    /\ thrown = FALSE
    /\ bookingInfo = None
    /\ notifyCalls = 0
    /\ mailData = None
    /\ sendOutcome = "none"
    /\ notifyResult = "none"
    /\ cb = "none"
    /\ response = None
    /\ responses = 0

\* POST returns `r`, having returned `prior` responses in this invocation
Respond(r, prior) ==
    /\ response' = r
    /\ responses' = prior + 1
    /\ pc' = "responded"

\* POST returned before line 128: nothing was verified, raised or sent
Untouched ==
    /\ verifyArg' = None
    /\ thrown' = FALSE
    /\ bookingInfo' = None
    /\ notifyCalls' = 0
    /\ mailData' = None
    /\ sendOutcome' = "none"
    /\ notifyResult' = "none"
    /\ cb' = "none"

\* POST returned after line 128 without calling the notifier
Verified(payload, raised) ==
    /\ verifyArg' = payload
    /\ thrown' = raised
    /\ bookingInfo' = None
    /\ notifyCalls' = 0
    /\ mailData' = None
    /\ sendOutcome' = "none"
    /\ notifyResult' = "none"
    /\ cb' = "none"

\* sendBookingNotificationEmail up to its `await` at line 88 (lines 34-88),
\* entered synchronously from line 160
Notifier_Enter(info) ==
    /\ notifyCalls' = 0 + 1
    /\ IF ~Truthy(mg)
       THEN /\ notifyResult' = "false"
            /\ pc' = "await_notifier"
            /\ mailData' = None
            /\ sendOutcome' = "none"
            /\ cb' = "none"
       ELSE /\ mailData' = MailDataOf(info)
            /\ \E o \in SendOutcomes :
                 /\ sendOutcome' = o
                 /\ IF o = "throws"
                    THEN /\ notifyResult' = NotifierCatch
                         /\ pc' = "await_notifier"
                         /\ cb' = "none"
                    ELSE /\ notifyResult' = "none"
                         /\ pc' = "await_send"
                         /\ cb' = IF o = "returns" THEN "pending" ELSE "none"
    /\ response' = None
    /\ responses' = 0

\* POST is invoked with request r and runs to its first suspension that
\* another step can interleave with, or to its return: lines 106-160
Post(r) ==
    /\ loaded
    /\ pc = "idle"
    /\ req' = r
    /\ UNCHANGED <<env, loaded>>
    /\ IF NotConfigured
       THEN /\ steps' = <<"config">>
            /\ Respond(RespNotConfigured, 0)
            /\ Untouched
       ELSE IF ~Truthy(r.signature)
       THEN /\ steps' = <<"config", "header">>
            /\ Respond(RespMissingSignature, 0)
            /\ Untouched
       ELSE LET ce == constructEvent(r.body, r.signature, webhookSecret)
            IN  IF ~ce.ok
                THEN /\ steps' = <<"config", "header", "verify">>
                     /\ Respond(RespInvalidSignature, 0)
                     /\ Verified(r.body, FALSE)
                ELSE /\ steps' = <<"config", "header", "verify", "dispatch">>
                     /\ IF ExtractionThrows(ce.event)
                        THEN /\ Respond(CatchAll, 0)
                             /\ Verified(r.body, TRUE)
                        ELSE IF Branch(ce.event.type) = "completed"
                        THEN /\ verifyArg' = r.body
                             /\ thrown' = FALSE
                             /\ bookingInfo' = BookingInfoOf(ce.event.object)
                             /\ Notifier_Enter(BookingInfoOf(ce.event.object))
                        ELSE /\ Respond(RespReceived, 0)
                             /\ Verified(r.body, FALSE)

\* sendBookingNotificationEmail resumes after `await` (lines 88-103)
Notifier_Resume ==
    /\ pc = "await_send"
    /\ notifyResult' = IF sendOutcome = "rejects" THEN NotifierCatch ELSE "true"
    /\ pc' = "await_notifier"
    /\ UNCHANGED <<env, loaded, req, steps, verifyArg, thrown, bookingInfo,
                   notifyCalls, mailData, sendOutcome, cb, response, responses>>

\* POST resumes after `await sendBookingNotificationEmail` (lines 160-190)
Post_Finish ==
    /\ pc = "await_notifier"
    /\ IF notifyResult = "throws"
       THEN /\ thrown' = TRUE
            /\ Respond(CatchAll, responses)
       ELSE /\ thrown' = thrown
            /\ Respond(RespReceived, responses)
    /\ UNCHANGED <<env, loaded, req, steps, verifyArg, bookingInfo,
                   notifyCalls, mailData, sendOutcome, notifyResult, cb>>

\* the provider invokes the delivery callback (lines 88-96); the response
\* object the callback builds is returned to the provider and dropped
Mailgun_Callback(report) ==
    /\ cb = "pending"
    /\ cb' = report
    /\ UNCHANGED <<env, loaded, pc, req, steps, verifyArg, thrown,
                   bookingInfo, notifyCalls, mailData, sendOutcome,
                   notifyResult, response, responses>>

\* The invocation is over: its locals are discarded and the handler waits for
\* the next request.  Nothing of a request outlives it; a callback still
\* outstanding belongs to the finished request and is no longer followed.
Post_Done ==
    /\ pc = "responded"
    /\ pc' = "idle"
    /\ req' = None
    /\ steps' = <<>>
    /\ response' = None
    /\ responses' = 0
    /\ Untouched
    /\ UNCHANGED <<env, loaded>>

Next ==
    \/ /\ pc = "idle"
       /\ \E b \in Bodies : \E s \in SignaturesFor(b) : Post(Request(b, s))
    \/ Notifier_Resume
    \/ Post_Finish
    \/ \E report \in CallbackReports : Mailgun_Callback(report)
    \/ Post_Done

Spec == Init /\ [][Next]_vars


-----------------------------------------------------------------------------
(* Vocabulary of the properties, stated on the request and the environment *)

Responded == pc = "responded"

AllResponses ==
    {RespReceived, RespMissingSignature, RespInvalidSignature,
     RespNotConfigured, RespProcessingFailed}

\* the processor API key and the webhook secret are set
StripeConfigured ==
    Truthy(env.STRIPE_SECRET_KEY) /\ Truthy(env.STRIPE_WEBHOOK_SECRET)

\* all three configuration values are set
FullyConfigured == StripeConfigured /\ Truthy(env.MAILGUN_API_KEY)

\* one of the three configuration values is unset
SomeConfigUnset == ~StripeConfigured \/ ~Truthy(env.MAILGUN_API_KEY)

HeaderPresent == req # None /\ Truthy(req.signature)

\* the header is the HMAC of the received body under the configured secret
SignatureGenuine ==
    /\ HeaderPresent
    /\ "key" \in DOMAIN req.signature
    /\ env.STRIPE_WEBHOOK_SECRET.t = "string"
    /\ req.signature.key = env.STRIPE_WEBHOOK_SECRET.s
    /\ req.signature.payload = req.body

SignatureInvalidOrMissing == req # None /\ ~SignatureGenuine

\* POST verified the request and obtained an event from it
VerifiedEvent == StripeConfigured /\ SignatureGenuine /\ req.body.json

TheEvent == req.body.event
TheSession == TheEvent.object

CompletedEvent ==
    VerifiedEvent /\ TheEvent.type = "checkout.session.completed"

WellFormedCompleted ==
    /\ CompletedEvent
    /\ TheSession # Undefined
    /\ TheSession.created.t = "number"

\* the metadata of the session holds key k
HasMeta(k) == TheSession.metadata # Null /\ k \in DOMAIN TheSession.metadata

MetaOr(k, default) == IF HasMeta(k) THEN TheSession.metadata[k] ELSE default

-----------------------------------------------------------------------------
\* C1: a verified, well-formed checkout.session.completed event makes POST
\* call sendBookingNotificationEmail exactly once, with the record mapped
\* from the session (sessionId, bookingId, phone, tourOption, customerName =
\* first name, space, last name, preferredLanguage defaulting to "English",
\* paymentStatus and paymentIntentId as reported), and return 200
\* {received: true}.
C1_CompletedNotifiedOnceAndAcknowledged ==
    WellFormedCompleted =>
        /\ notifyCalls = 1
        /\ bookingInfo # None
        /\ bookingInfo.sessionId = TheSession.id
        /\ bookingInfo.bookingId = MetaOr("bookingId", Undefined)
        /\ bookingInfo.customerPhone = MetaOr("phone", Undefined)
        /\ bookingInfo.tourOption = MetaOr("tourOption", Undefined)
        /\ (HasMeta("firstName") /\ HasMeta("lastName")) =>
              bookingInfo.customerName =
                  Str(TheSession.metadata.firstName.s \o " "
                      \o TheSession.metadata.lastName.s)
        /\ bookingInfo.preferredLanguage =
              MetaOr("preferredLanguage", Str("English"))
        /\ bookingInfo.paymentStatus = TheSession.payment_status
        /\ bookingInfo.paymentIntentId = TheSession.payment_intent
        /\ Responded => (response = RespReceived /\ responses = 1)

C1_Witness ==
    /\ Responded
    /\ WellFormedCompleted
    /\ ~HasMeta("preferredLanguage")
    /\ HasMeta("firstName") /\ HasMeta("lastName")
    /\ notifyCalls = 1
    /\ response = RespReceived

\* C2 as stated: whatever the configuration, a request with an invalid or
\* missing signature gets status 400 and the notifier is never invoked.
\* (Stated with the email provider key set, so that a violation shows the
\* processor key or the webhook secret deciding the response.)
C2_Original_Always400 ==
    (Responded /\ SignatureInvalidOrMissing /\ Truthy(env.MAILGUN_API_KEY)) =>
        (response.status = 400 /\ notifyCalls = 0)

\* C2 amended: a request with an invalid or missing signature never reaches
\* the notifier or the provider; its response is 400 when the processor key
\* and the webhook secret are set, and the 500 "not configured" response of
\* the configuration guard otherwise.
C2_InvalidSignatureRejected ==
    SignatureInvalidOrMissing =>
        /\ notifyCalls = 0
        /\ mailData = None
        /\ sendOutcome = "none"
        /\ Responded
        /\ IF StripeConfigured
           THEN /\ response.status = 400
                /\ response =
                      IF HeaderPresent THEN RespInvalidSignature
                      ELSE RespMissingSignature
           ELSE response = RespNotConfigured

C2_Witness ==
    /\ Responded
    /\ StripeConfigured
    /\ HeaderPresent
    /\ ~SignatureGenuine
    /\ req.body.json
    /\ req.body.event.type = "checkout.session.completed"
    /\ response = RespInvalidSignature
    /\ notifyCalls = 0

\* C3 as stated: with the processor key, the webhook secret or the email
\* provider key unset, every request gets the 500 "not configured" response
\* and the notifier is never invoked.
C3_Original_UnsetMeans500 ==
    (SomeConfigUnset /\ req # None) =>
        /\ notifyCalls = 0
        /\ Responded => response = RespNotConfigured

\* C4: for a verified checkout.session.completed event whose send fails (a
\* synchronous throw, a rejection, or an error reported by the delivery
\* callback at any time), nothing propagates out of the notifier and POST
\* returns 200 {received: true}.
SendFailed == sendOutcome \in {"throws", "rejects"} \/ cb = "error"

C4_SendFailureStillAcknowledged ==
    (CompletedEvent /\ notifyCalls = 1 /\ SendFailed) =>
        /\ notifyResult # "throws"
        /\ ~thrown
        /\ pc = "await_notifier" => notifyResult \in {"true", "false"}
        /\ Responded => (response = RespReceived /\ responses = 1)

C4_Witness ==
    /\ Responded
    /\ CompletedEvent
    /\ notifyCalls = 1
    /\ cb = "error"
    /\ response = RespReceived

\* C5 as stated: every verified event of another type than
\* checkout.session.completed gets 200 {received: true} and no notifier call.
\* (Stated with all three configuration values set.)
C5_Original_OtherTypesAlways200 ==
    (Responded /\ VerifiedEvent /\ FullyConfigured
        /\ TheEvent.type # "checkout.session.completed") =>
        (response = RespReceived /\ notifyCalls = 0)

\* C5 amended: for a verified event of another type the notifier is never
\* invoked; the response is 200 {received: true} when the event carries a
\* data.object or its type is unrecognized, and the catch-all 500 for a
\* checkout.session.expired or payment_intent.payment_failed event that
\* carries no data.object.
C5_OtherTypesNeverNotify ==
    (VerifiedEvent /\ TheEvent.type # "checkout.session.completed") =>
        /\ notifyCalls = 0
        /\ mailData = None
        /\ Responded
        /\ IF \/ TheEvent.object # Undefined
              \/ TheEvent.type \notin {"checkout.session.expired",
                                       "payment_intent.payment_failed"}
           THEN response = RespReceived
           ELSE response = RespProcessingFailed

C5_Witness ==
    /\ Responded
    /\ VerifiedEvent
    /\ TheEvent.type = "checkout.session.expired"
    /\ TheEvent.object # Undefined
    /\ response = RespReceived
    /\ notifyCalls = 0

\* C6 as stated: sendBookingNotificationEmail never returns true for a
\* submission whose delivery callback reports an error, whichever of the
\* return and the callback comes first.  (Stated with all three
\* configuration values set.)
C6_Original_TrueOnlyIfAccepted ==
    FullyConfigured => ~(notifyResult = "true" /\ cb = "error")


\* C7 as stated: in the subject and the HTML body of the notification, every
\* value derived from an absent optional field (bookingId, firstName,
\* lastName, phone, tourOption, customer_email, payment_intent) is rendered
\* as "N/A", never as "undefined", "null" or the empty string.  (Stated
\* with all three configuration values set.)
NamePart(k) == IF HasMeta(k) THEN TheSession.metadata[k].s ELSE "undefined"

C7_Original_AbsentRendersNA ==
    (WellFormedCompleted /\ FullyConfigured /\ mailData # None) =>
        /\ ~HasMeta("bookingId") => mailData.html.BookingId = "N/A"
        /\ ~HasMeta("phone") => mailData.html.Phone = "N/A"
        /\ ~HasMeta("tourOption") => mailData.html.TourOption = "N/A"
        /\ TheSession.customer_email = Null => mailData.html.Email = "N/A"
        /\ TheSession.payment_intent = Null =>
              mailData.html.PaymentIntentId = "N/A"
        /\ (~HasMeta("firstName") \/ ~HasMeta("lastName")) =>
              /\ mailData.html.Name #
                    NamePart("firstName") \o " " \o NamePart("lastName")
              /\ mailData.subject #
                    SubjectPrefix \o NamePart("firstName") \o " "
                        \o NamePart("lastName")
        /\ (~HasMeta("firstName") /\ ~HasMeta("lastName")) =>
              /\ mailData.html.Name = "N/A"
              /\ mailData.subject = SubjectPrefix \o "N/A"

\* C8: for a verified checkout.session.completed event, paymentAmount is
\* amount_total divided by 100 (4550 gives 45.50) and 0 when amount_total is
\* absent; currency is the session currency in upper case ("usd" gives
\* "USD") and "USD" when the session has none.
C8_AmountAndCurrency ==
    (WellFormedCompleted /\ bookingInfo # None) =>
        /\ TheSession.amount_total = Null => bookingInfo.paymentAmount = Num(0)
        /\ TheSession.amount_total # Null =>
              /\ bookingInfo.paymentAmount.whole * 100
                    + bookingInfo.paymentAmount.frac
                 = TheSession.amount_total.whole
              /\ bookingInfo.paymentAmount.frac \in 0..99
        /\ TheSession.amount_total = Num(4550) =>
              bookingInfo.paymentAmount = Dec(45, 50)
        /\ TheSession.currency = Null => bookingInfo.currency = Str("USD")
        /\ TheSession.currency = Str("usd") => bookingInfo.currency = Str("USD")
        /\ TheSession.currency = Str("eur") => bookingInfo.currency = Str("EUR")
        /\ (TheSession.amount_total = Num(4550)
               /\ TheSession.currency = Str("usd")) =>
              mailData.html.TotalAmount = "$45.50 USD"

C8_Witness ==
    /\ WellFormedCompleted
    /\ TheSession.amount_total = Num(4550)
    /\ TheSession.currency = Str("usd")
    /\ bookingInfo # None
    /\ bookingInfo.paymentAmount = Dec(45, 50)
    /\ bookingInfo.currency = Str("USD")

\* C9: an exception raised after verification, during extraction or
\* dispatch (a completed event whose creation time is missing or not a
\* number, an event without data.object), gives the 500 "Webhook processing
\* failed" response; the catch-all never replaces the response of a failing
\* guard; and POST ends with exactly one of its five responses, no exception
\* escaping it.
ExtractionMustThrow ==
    \/ /\ TheEvent.type \in {"checkout.session.completed",
                             "checkout.session.expired",
                             "payment_intent.payment_failed"}
       /\ TheEvent.object = Undefined
    \/ /\ TheEvent.type = "checkout.session.completed"
       /\ TheEvent.object # Undefined
       /\ TheEvent.object.created.t # "number"

C9_CatchAllAfterVerification ==
    /\ response \in AllResponses \cup {None}
    /\ responses <= 1
    /\ Responded <=> responses = 1
    /\ Responded <=> response # None
    /\ thrown => (Responded /\ response = RespProcessingFailed)
    /\ (VerifiedEvent /\ ExtractionMustThrow) =>
          (thrown /\ response = RespProcessingFailed /\ notifyCalls = 0)
    /\ (Responded /\ response = RespProcessingFailed) =>
          (thrown /\ VerifiedEvent)
    /\ (Responded /\ ~StripeConfigured) => response = RespNotConfigured
    /\ (Responded /\ StripeConfigured /\ ~HeaderPresent) =>
          response = RespMissingSignature
    /\ (Responded /\ StripeConfigured /\ HeaderPresent /\ ~SignatureGenuine) =>
          response = RespInvalidSignature

C9_Witness ==
    /\ Responded
    /\ VerifiedEvent
    /\ TheEvent.type = "checkout.session.completed"
    /\ TheEvent.object # Undefined
    /\ TheEvent.object.created = Undefined
    /\ thrown
    /\ response = RespProcessingFailed

\* C10 as stated: the guards run in the order configuration, header
\* presence, signature verification, dispatch, and the first failing guard
\* alone decides the response: missing configuration gives the 500 "not
\* configured" response whatever the signature, verification is not
\* attempted without a header, and nothing is dispatched before the raw body
\* has been verified.
GuardOrder == <<"config", "header", "verify", "dispatch">>

C10_Original_GuardOrder ==
    Responded =>
        /\ steps = SubSeq(GuardOrder, 1, Len(steps))
        /\ SomeConfigUnset => (response = RespNotConfigured /\ Len(steps) = 1)
        /\ ~HeaderPresent => (Len(steps) <= 2 /\ verifyArg = None)
        /\ Len(steps) >= 3 => verifyArg = req.body
        /\ Len(steps) = 4 => SignatureGenuine


====
